---- MODULE Spec2Model ----
(***************************************************************************)
(* Model of the log dashboard view component App (src/src/App.jsx): the   *)
(* component state, the socket handler for newLog, the REST log fetch,     *)
(* the recompute effect that derives filteredLogs, the fetch/polling       *)
(* effect and the filter and pagination handlers.                          *)
(*                                                                         *)
(* React's scheduling is modelled as follows.  All state setters called    *)
(* by one handler or one promise continuation are applied in one commit.   *)
(* A commit that changed a dependency of an effect leaves that effect      *)
(* pending (pendingEffects); RunEffects runs the pending effects of the    *)
(* last commit.  After a commit caused by user input (a filter, page,      *)
(* clear or mode change) the effects are flushed before any other event    *)
(* is handled.  After a commit caused by a push or a fetch response the    *)
(* effects are flushed later, so a further push or fetch response may be   *)
(* handled first; React then flushes the pending recompute effect before   *)
(* it renders, so the value the effect sets is queued after, and           *)
(* overrides, what that handler set for filteredLogs.  Any other event     *)
(* handled while only the recompute effect is pending sets neither logs    *)
(* nor filteredLogs, so it has the result of RunEffects followed by that   *)
(* event and is modelled as those two steps.                               *)
(*                                                                         *)
(* The socket connection is counted (open connections, io() calls,        *)
(* listeners attached for newLog).  A stats snapshot is one opaque value;  *)
(* the responses of fetchStats and the statsUpdate pushes are delivered    *)
(* under StatsSpec only, since they touch no other state.                  *)
(*                                                                         *)
(* Page sizes are scaled: the options 25 / 50 / 100 of the select are      *)
(* modelled as 1 / 2 / 3 so that truncation happens on short histories.    *)
(* A limit chosen in the select is a string in the code ("25"); slice and  *)
(* the subtraction coerce it to the same number, which is what is kept.    *)
(***************************************************************************)
EXTENDS Integers, Sequences, FiniteSets, Bags, TLC

VARIABLES
    logs,             \* useState logs: full history, newest first
    filteredLogs,     \* useState filteredLogs: the visible list
    filters,          \* useState filters: level, service, search, limit, page
    loading,          \* useState loading
    realTimeEnabled,  \* useState realTimeEnabled
    pagination,       \* useState pagination
    inflight,         \* bag of GET /logs requests awaiting their response
    timers,           \* number of live setInterval timers
    hasCleanup,       \* the last run of the fetch effect returned clearInterval
    pendingEffects,   \* effects of the last commit that have not run yet
    mounted,          \* the component is mounted
    pushed,           \* ids of the records the backend has emitted as newLog
    lastResponse,     \* the last successful GET /logs response (history)
    fetches,          \* number of fetchLogs calls so far (history)
    stats,            \* useState stats
    statsInflight,    \* number of GET /logs/stats requests awaiting a response
    lastStats,        \* the stats value received last (history)
    socketsOpen,      \* number of open socket connections
    socketsOpened,    \* number of io() calls so far (history)
    newLogHandlers,   \* number of listeners attached for newLog
    handlersPending,  \* the socket handlers effect has not run since its deps changed
    keptUnmatched     \* ids of history entries pushed while they did not match (history)

socketVars == <<socketsOpen, socketsOpened, newLogHandlers>>

statsVars == <<stats, statsInflight, lastStats>>

vars == <<logs, filteredLogs, filters, loading, realTimeEnabled, pagination,
          inflight, timers, hasCleanup, pendingEffects, mounted, pushed,
          lastResponse, fetches, handlersPending, keptUnmatched,
          socketVars, statsVars>>

----------------------------------------------------------------------------
(* Bounds *)

MaxFetches == 3       \* fetchLogs calls in one run
MaxPages == 2         \* pages the backend reports
MaxPureLen == 2       \* length of the lists of PureSpec

----------------------------------------------------------------------------
(* Values *)

\* filters.limit of the initial state and of Clear Filters (50, scaled).
DefaultLimit == 2

\* The options of the page-size select (25 and 50, scaled; 100 is left out).
LimitOptions == {1, 2}

LevelOptions == {"", "ERROR"}

ServiceOptions == {"", "auth"}

\* Texts are sequences of characters; "A" and "B" are upper case.
SearchOptions == {<<>>, <<"A">>}

\* The records the backend holds and emits.
Pool ==
    { [id |-> 1, level |-> "ERROR", service |-> "auth", message |-> <<"b">>],
      [id |-> 2, level |-> "INFO",  service |-> "auth", message |-> <<"A", "b">>],
      [id |-> 3, level |-> "ERROR", service |-> "db",   message |-> <<"b", "a">>] }

DefaultFilters ==
    [level |-> "", service |-> "", search |-> <<>>,
     limit |-> DefaultLimit, page |-> 1]

\* useState({}) : pagination.pages and pagination.page are undefined.
NoPagination == [page |-> 0, pages |-> 0]

NoResponse == [logs |-> <<>>, pagination |-> NoPagination]

\* useState({INFO: 0, WARN: 0, ERROR: 0, total: 0, errorRate: 0}); a stats
\* snapshot is modelled as one opaque value.
InitialStats == "zero"

\* The snapshots the backend sends.
StatsValues == {"s1", "s2"}

----------------------------------------------------------------------------
(* Pure functions *)

\* String.prototype.toLowerCase on one character.
LowerChar(c) ==
    CASE c = "A" -> "a"
      [] c = "B" -> "b"
      [] OTHER -> c

\* String.prototype.toLowerCase.
ToLowerCase(s) == [i \in 1..Len(s) |-> LowerChar(s[i])]

\* String.prototype.includes: t occurs in s at some position.
Includes(s, t) ==
    \E i \in 0..(Len(s) - Len(t)) :
        \A j \in 1..Len(t) : s[i + j] = t[j]

\* logMatchesFilters comparing the lower-cased message with the search as
\* typed.
logMatchesFilters_SearchAsTyped(log, f) ==
    IF f.level # "" /\ log.level # f.level THEN FALSE
    ELSE IF f.service # "" /\ log.service # f.service THEN FALSE
    ELSE IF f.search # <<>>
            /\ ~Includes(ToLowerCase(log.message), f.search)
         THEN FALSE
    ELSE TRUE

\* logMatchesFilters, with the filters of the render it closes over.
logMatchesFilters(log, f) ==
    IF f.level # "" /\ log.level # f.level THEN FALSE
    ELSE IF f.service # "" /\ log.service # f.service THEN FALSE
    ELSE IF f.search # <<>>
            /\ ~Includes(ToLowerCase(log.message), ToLowerCase(f.search))
         THEN FALSE
    ELSE TRUE

\* Array.prototype.filter with logMatchesFilters.
RECURSIVE FilterLogs(_, _)
FilterLogs(ls, f) ==
    IF ls = <<>> THEN <<>>
    ELSE IF logMatchesFilters(Head(ls), f)
         THEN <<Head(ls)>> \o FilterLogs(Tail(ls), f)
         ELSE FilterLogs(Tail(ls), f)

\* applyFilters.
applyFilters(logsToFilter, f) ==
    IF f.level = "" /\ f.service = "" /\ f.search = <<>>
    THEN logsToFilter
    ELSE FilterLogs(logsToFilter, f)

\* Array.prototype.slice(0, n); a negative n counts from the end.
Slice0(s, n) ==
    LET k == IF n < 0 THEN Len(s) + n ELSE n
    IN  IF k <= 0 THEN <<>>
        ELSE IF k >= Len(s) THEN s
        ELSE SubSeq(s, 1, k)

\* The recompute effect cutting the list one entry short.
Recompute_CutsOneShort(ls, f) == Slice0(applyFilters(ls, f), f.limit - 1)

\* The recompute effect without its slice.
Recompute_NoSlice(ls, f) == applyFilters(ls, f)

\* The value the recompute effect sets.
Recompute(ls, f) == Slice0(applyFilters(ls, f), f.limit)

\* The fast path keeping limit entries of the previous list.
FastPath_OffByOne(newLog, prev, f) == <<newLog>> \o Slice0(prev, f.limit)

\* The fast-path updater of the newLog handler.
FastPath(newLog, prev, f) == <<newLog>> \o Slice0(prev, f.limit - 1)

----------------------------------------------------------------------------
(* The backend *)

\* The sequences of records of S in descending id order (newest first).
RECURSIVE NewestFirst(_)
NewestFirst(S) ==
    IF S = {} THEN <<>>
    ELSE LET r == CHOOSE x \in S : \A y \in S : y.id <= x.id
         IN  <<r>> \o NewestFirst(S \ {r})

\* The responses the backend may give to GET /logs with the query of req:
\* a page of at most limit records that match the query, newest first,
\* and the pagination of that page.
Responses(req) ==
    LET matching == {r \in Pool : logMatchesFilters(r, req)}
    IN  { [logs |-> NewestFirst(S),
           pagination |-> [page |-> req.page, pages |-> n]] :
            S \in {T \in SUBSET matching : Cardinality(T) <= req.limit},
            n \in 1..MaxPages }

----------------------------------------------------------------------------
(* Initial state: the component is mounted, its mount effects have run    *)
(* (the socket is connected, the handlers are registered, the first       *)
(* fetchLogs is in flight).                                               *)

Init ==
    /\ logs = <<>>
    /\ filteredLogs = <<>>
    /\ filters = DefaultFilters
    /\ loading = TRUE
    /\ realTimeEnabled = TRUE
    /\ pagination = NoPagination
    /\ inflight = SetToBag({DefaultFilters})
    /\ timers = 0
    /\ hasCleanup = FALSE
    /\ pendingEffects = {}
    /\ mounted = TRUE
    /\ pushed = {}
    /\ lastResponse = NoResponse
    /\ fetches = 1
    /\ stats = InitialStats
    /\ statsInflight = 1
    /\ lastStats = InitialStats
    /\ socketsOpen = 1
    /\ socketsOpened = 1
    /\ newLogHandlers = 1
    /\ handlersPending = FALSE
    /\ keptUnmatched = {}

\* No user input is handled while effects of the last commit are pending.
Settled == pendingEffects = {}

\* A discrete (user input) commit flushes its effects before other events.
SyncPending == "fetch" \in pendingEffects

\* A further fetchLogs call stays within the bound on calls.
CanFetch == fetches < MaxFetches

----------------------------------------------------------------------------
(* Socket handler *)

\* The handler prepending without looking at realTimeEnabled.
NewLogHistory_IgnoresToggle(newLog, prev, enabled) == <<newLog>> \o prev

\* setLogs((prev) => [newLog, ...prev]) under if (realTimeEnabled).
NewLogHistory(newLog, prev, enabled) ==
    IF enabled THEN <<newLog>> \o prev ELSE prev

\* The handler taking the fast path without calling logMatchesFilters.
NewLogVisible_NoMatchCheck(newLog, prev, f, enabled) ==
    IF enabled THEN <<newLog>> \o Slice0(prev, f.limit - 1) ELSE prev

\* setFilteredLogs((prev) => [newLog, ...prev.slice(0, filters.limit - 1)])
\* under if (realTimeEnabled) and if (logMatchesFilters(newLog)).
NewLogVisible(newLog, prev, f, enabled) ==
    IF enabled /\ logMatchesFilters(newLog, f)
    THEN FastPath(newLog, prev, f)
    ELSE prev

\* The handler keeping a record in the history only when it matches.
NewLog_DropsUnmatched(r) ==
    /\ mounted /\ ~SyncPending
    /\ r.id = Cardinality(pushed) + 1
    /\ pushed' = pushed \cup {r.id}
    /\ logs' =
         IF logMatchesFilters(r, filters)
         THEN NewLogHistory(r, logs, realTimeEnabled)
         ELSE logs
    /\ filteredLogs' =
         IF realTimeEnabled /\ "recompute" \in pendingEffects
         THEN Recompute(logs, filters)
         ELSE NewLogVisible(r, filteredLogs, filters, realTimeEnabled)
    /\ keptUnmatched' =
         IF realTimeEnabled /\ ~logMatchesFilters(r, filters)
         THEN keptUnmatched \cup {r.id}
         ELSE keptUnmatched
    /\ pendingEffects' =
         IF realTimeEnabled THEN {"recompute"} ELSE pendingEffects
    /\ UNCHANGED <<handlersPending, socketVars, statsVars, filters, loading, realTimeEnabled, pagination, inflight,
                   timers, hasCleanup, mounted, lastResponse, fetches>>

\* socket.on("newLog"), with realTimeEnabled and filters of its closure.
\* The backend emits each record once, in id order.  When the handler
\* sets state while the recompute effect of the last commit is pending,
\* that effect runs before the render and its value replaces the list.
NewLog(r) ==
    /\ mounted /\ ~SyncPending
    /\ r.id = Cardinality(pushed) + 1
    /\ pushed' = pushed \cup {r.id}
    /\ logs' = NewLogHistory(r, logs, realTimeEnabled)
    /\ filteredLogs' =
         IF realTimeEnabled /\ "recompute" \in pendingEffects
         THEN Recompute(logs, filters)
         ELSE NewLogVisible(r, filteredLogs, filters, realTimeEnabled)
    /\ keptUnmatched' =
         IF realTimeEnabled /\ ~logMatchesFilters(r, filters)
         THEN keptUnmatched \cup {r.id}
         ELSE keptUnmatched
    /\ pendingEffects' =
         IF realTimeEnabled THEN {"recompute"} ELSE pendingEffects
    /\ UNCHANGED <<handlersPending, socketVars, statsVars, filters, loading, realTimeEnabled, pagination, inflight,
                   timers, hasCleanup, mounted, lastResponse, fetches>>

----------------------------------------------------------------------------
(* fetchLogs *)

\* fetchLogs aborting the requests still in flight.
IssueFetch_CancelsPrevious(bag, f) == SetToBag({f})

\* fetchLogs sending no request.
IssueFetch_NoRequest(bag, f) == bag

\* The synchronous part of fetchLogs: setLoading(true) and the request.
IssueFetch(bag, f) == bag (+) SetToBag({f})

\* The response merged into the history instead of replacing it.
SetLogs_KeepsPrevious(prev, records) ==
    records \o SelectSeq(prev, LAMBDA r : \A i \in 1..Len(records) : records[i] # r)

\* setLogs(response.data.logs): a value, not an updater, so the previous
\* history is discarded.
SetLogs(prev, records) == records

\* The continuation of fetchLogs after a successful response.
FetchSuccess ==
    /\ mounted /\ ~SyncPending
    /\ \E req \in BagToSet(inflight) : \E resp \in Responses(req) :
         /\ inflight' = inflight (-) SetToBag({req})
         /\ logs' = SetLogs(logs, resp.logs)
         /\ filteredLogs' =
              IF "recompute" \in pendingEffects
              THEN Recompute(logs, filters)
              ELSE resp.logs
         /\ pagination' = resp.pagination
         /\ lastResponse' = resp
    /\ loading' = FALSE
    /\ keptUnmatched' = {}
    /\ pendingEffects' = {"recompute"}
    /\ UNCHANGED <<handlersPending, socketVars, statsVars, filters, realTimeEnabled, timers, hasCleanup, mounted,
                   pushed, fetches>>

\* A failure path that clears the displayed data.
FetchFailure_ClearsData ==
    /\ mounted /\ pendingEffects = {}
    /\ \E req \in BagToSet(inflight) :
         inflight' = inflight (-) SetToBag({req})
    /\ loading' = FALSE
    /\ logs' = <<>>
    /\ filteredLogs' = <<>>
    /\ UNCHANGED <<keptUnmatched, handlersPending, socketVars, statsVars, filters, realTimeEnabled, pagination, timers, hasCleanup,
                   pendingEffects, mounted, pushed, lastResponse, fetches>>

\* A failure path that forgets the pagination.
FetchFailure_ResetsPagination ==
    /\ mounted /\ Settled
    /\ \E req \in BagToSet(inflight) :
         inflight' = inflight (-) SetToBag({req})
    /\ loading' = FALSE
    /\ pagination' = NoPagination
    /\ UNCHANGED <<keptUnmatched, handlersPending, socketVars, statsVars, logs, filteredLogs, filters, realTimeEnabled,
                   timers, hasCleanup, pendingEffects, mounted, pushed,
                   lastResponse, fetches>>

\* The catch and finally blocks of fetchLogs after a failed request.
FetchFailure ==
    /\ mounted /\ Settled
    /\ \E req \in BagToSet(inflight) :
         inflight' = inflight (-) SetToBag({req})
    /\ loading' = FALSE
    /\ UNCHANGED <<keptUnmatched, handlersPending, socketVars, statsVars, logs, filteredLogs, filters, realTimeEnabled, pagination,
                   timers, hasCleanup, pendingEffects, mounted, pushed,
                   lastResponse, fetches>>

----------------------------------------------------------------------------
(* User input *)

FilterOptions(key) ==
    CASE key = "level" -> LevelOptions
      [] key = "service" -> ServiceOptions
      [] key = "search" -> SearchOptions
      [] key = "limit" -> LimitOptions

\* handleFilterChange without page: 1.
FilterChanged_KeepsPage(f, key, value) == [f EXCEPT ![key] = value]

\* The filters handleFilterChange(key, value) sets.
FilterChanged(f, key, value) == [[f EXCEPT ![key] = value] EXCEPT !.page = 1]

handleFilterChange(key, value) ==
    /\ mounted /\ Settled /\ CanFetch
    /\ value # filters[key]
    /\ filters' = FilterChanged(filters, key, value)
    /\ pendingEffects' = {"recompute", "fetch"}
    /\ handlersPending' = TRUE
    /\ UNCHANGED <<keptUnmatched, socketVars, statsVars, logs, filteredLogs, loading, realTimeEnabled, pagination,
                   inflight, timers, hasCleanup, mounted, pushed, lastResponse, fetches>>

\* The filters handlePageChange(newPage) sets.
PageChanged(f, newPage) == [f EXCEPT !.page = newPage]

\* Previous and Next are rendered when pagination.pages > 1 and disabled at
\* the first and the last page; they pass pagination.page - 1 and + 1.
handlePageChange(newPage) ==
    /\ mounted /\ Settled /\ CanFetch
    /\ pagination.pages > 1
    /\ \/ newPage = pagination.page - 1 /\ pagination.page # 1
       \/ newPage = pagination.page + 1 /\ pagination.page # pagination.pages
    /\ newPage <= MaxPages
    /\ filters' = PageChanged(filters, newPage)
    /\ pendingEffects' = {"recompute", "fetch"}
    /\ UNCHANGED <<keptUnmatched, handlersPending, socketVars, statsVars, logs, filteredLogs, loading, realTimeEnabled, pagination,
                   inflight, timers, hasCleanup, mounted, pushed, lastResponse, fetches>>

hasActiveFilters(f) == f.level # "" \/ f.service # "" \/ f.search # <<>>

\* onClick of the Clear Filters button.
ClearFilters ==
    /\ mounted /\ Settled /\ CanFetch
    /\ hasActiveFilters(filters)
    /\ filters' = DefaultFilters
    /\ pendingEffects' = {"recompute", "fetch"}
    /\ handlersPending' = TRUE
    /\ UNCHANGED <<keptUnmatched, socketVars, statsVars, logs, filteredLogs, loading, realTimeEnabled, pagination,
                   inflight, timers, hasCleanup, mounted, pushed, lastResponse, fetches>>

\* The real-time toggle: setRealTimeEnabled with the other mode.
ToggleRealTime ==
    /\ mounted /\ Settled /\ CanFetch
    /\ realTimeEnabled' = ~realTimeEnabled
    /\ pendingEffects' = {"fetch"}
    /\ handlersPending' = TRUE
    /\ UNCHANGED <<keptUnmatched, socketVars, statsVars, logs, filteredLogs, filters, loading, pagination, inflight,
                   timers, hasCleanup, mounted, pushed, lastResponse, fetches>>

----------------------------------------------------------------------------
(* Effects *)

\* The socket handlers effect returning no cleanup.
HandlersAfterEffect_NoCleanup(n) == n + 1

\* The listeners for newLog after the socket handlers effect has run again:
\* the cleanup of its previous run, socket.off("newLog"), removes every
\* listener of the event and the body attaches one with socket.on.
HandlersAfterEffect(n) == 0 + 1

\* The socket effect run again whenever the fetch effect is.
SocketsOpenedAfterEffects_Reconnects(n, pending) ==
    IF "fetch" \in pending THEN n + 1 ELSE n

\* The number of io() calls after a flush of effects: the socket effect has
\* no dependencies, so no commit after the mount leaves it pending.
SocketsOpenedAfterEffects(n, pending) == n

\* The fetch effect returning no cleanup.
TimersAfterEffect_NoCleanup(n, cleanup, realTime) ==
    n + (IF realTime THEN 0 ELSE 1)

\* The number of live timers after the cleanup of the previous run of the
\* fetch effect (clearInterval) and the body of the new run (setInterval
\* when real time is disabled).
TimersAfterEffect(n, cleanup, realTime) ==
    (IF cleanup THEN n - 1 ELSE n) + (IF realTime THEN 0 ELSE 1)

\* The pending effects of the last commit, in declaration order: the
\* recompute effect, then the fetch effect (cleanup, fetchLogs, setInterval).
RunEffects ==
    /\ mounted /\ pendingEffects # {}
    /\ socketsOpened' = SocketsOpenedAfterEffects(socketsOpened, pendingEffects)
    /\ newLogHandlers' =
         IF handlersPending
         THEN HandlersAfterEffect(newLogHandlers)
         ELSE newLogHandlers
    /\ handlersPending' = FALSE
    /\ filteredLogs' =
         IF "recompute" \in pendingEffects
         THEN Recompute(logs, filters)
         ELSE filteredLogs
    /\ IF "fetch" \in pendingEffects
       THEN /\ loading' = TRUE
            /\ inflight' = IssueFetch(inflight, filters)
            /\ fetches' = fetches + 1
            /\ statsInflight' = statsInflight + 1
            /\ timers' = TimersAfterEffect(timers, hasCleanup, realTimeEnabled)
            /\ hasCleanup' = ~realTimeEnabled
       ELSE UNCHANGED <<loading, inflight, timers, hasCleanup, fetches,
                        statsInflight>>
    /\ pendingEffects' = {}
    /\ UNCHANGED <<keptUnmatched, logs, filters, realTimeEnabled, pagination, mounted,
                   pushed, lastResponse, socketsOpen, stats, lastStats>>

\* The setInterval callback: fetchLogs() with the filters of its closure.
TimerTick ==
    /\ mounted /\ Settled /\ CanFetch
    /\ timers > 0
    /\ loading' = TRUE
    /\ inflight' = IssueFetch(inflight, filters)
    /\ fetches' = fetches + 1
    /\ statsInflight' = statsInflight + 1
    /\ UNCHANGED <<keptUnmatched, logs, filteredLogs, filters, realTimeEnabled, pagination,
                   timers, hasCleanup, pendingEffects, mounted, pushed,
                   lastResponse, handlersPending, socketVars, stats, lastStats>>

\* Unmount: the cleanup of the fetch effect clears its interval, that of the
\* socket handlers effect detaches the listeners and that of the socket
\* effect closes the connection.
Unmount ==
    /\ mounted /\ Settled
    /\ mounted' = FALSE
    /\ timers' = IF hasCleanup THEN timers - 1 ELSE timers
    /\ hasCleanup' = FALSE
    /\ socketsOpen' = socketsOpen - 1
    /\ newLogHandlers' = 0
    /\ UNCHANGED <<keptUnmatched, logs, filteredLogs, filters, loading, realTimeEnabled,
                   pagination, inflight, pendingEffects, pushed, lastResponse,
                   fetches, handlersPending, socketsOpened, statsVars>>

----------------------------------------------------------------------------

FilterChange ==
    \E key \in {"level", "service", "search", "limit"} :
        \E value \in FilterOptions(key) : handleFilterChange(key, value)

PageChange == \E newPage \in 1..MaxPages : handlePageChange(newPage)

Next ==
    \/ \E r \in Pool : NewLog(r)
    \/ FetchSuccess
    \/ FetchFailure
    \/ FilterChange
    \/ PageChange
    \/ ClearFilters
    \/ ToggleRealTime
    \/ RunEffects
    \/ TimerTick
    \/ Unmount

Spec == Init /\ [][Next]_vars

----------------------------------------------------------------------------
(* Statistics *)

\* A statsUpdate listener that looks at realTimeEnabled as the newLog one does.
StatsUpdate_OnlyRealTime(newStats) ==
    /\ mounted /\ Settled
    /\ newStats \in StatsValues
    /\ stats' = IF realTimeEnabled THEN newStats ELSE stats
    /\ lastStats' = newStats
    /\ UNCHANGED <<keptUnmatched, logs, filteredLogs, filters, loading, realTimeEnabled,
                   pagination, inflight, timers, hasCleanup, pendingEffects,
                   mounted, pushed, lastResponse, fetches, handlersPending,
                   socketVars, statsInflight>>

\* socket.on("statsUpdate", (newStats) => setStats(newStats)).
StatsUpdate(newStats) ==
    /\ mounted /\ Settled
    /\ newStats \in StatsValues
    /\ stats' = newStats
    /\ lastStats' = newStats
    /\ UNCHANGED <<keptUnmatched, logs, filteredLogs, filters, loading, realTimeEnabled,
                   pagination, inflight, timers, hasCleanup, pendingEffects,
                   mounted, pushed, lastResponse, fetches, handlersPending,
                   socketVars, statsInflight>>

\* fetchStats after a successful response: setStats(response.data).
FetchStatsSuccess(data) ==
    /\ mounted /\ Settled
    /\ statsInflight > 0
    /\ data \in StatsValues
    /\ statsInflight' = statsInflight - 1
    /\ stats' = data
    /\ lastStats' = data
    /\ UNCHANGED <<keptUnmatched, logs, filteredLogs, filters, loading, realTimeEnabled,
                   pagination, inflight, timers, hasCleanup, pendingEffects,
                   mounted, pushed, lastResponse, fetches, handlersPending,
                   socketVars>>

\* fetchStats after a failed request: the catch block only logs.
FetchStatsFailure ==
    /\ mounted /\ Settled
    /\ statsInflight > 0
    /\ statsInflight' = statsInflight - 1
    /\ UNCHANGED <<keptUnmatched, logs, filteredLogs, filters, loading, realTimeEnabled,
                   pagination, inflight, timers, hasCleanup, pendingEffects,
                   mounted, pushed, lastResponse, fetches, handlersPending,
                   socketVars, stats, lastStats>>

\* The view under the default filters, with the stats traffic delivered.
StatsNext ==
    \/ \E r \in Pool : NewLog(r)
    \/ FetchSuccess
    \/ FetchFailure
    \/ ToggleRealTime
    \/ RunEffects
    \/ TimerTick
    \/ Unmount
    \/ \E newStats \in StatsValues : StatsUpdate(newStats)
    \/ \E data \in StatsValues : FetchStatsSuccess(data)
    \/ FetchStatsFailure

StatsSpec == Init /\ [][StatsNext]_vars

----------------------------------------------------------------------------
(* What the specification says of filtering, stated without the code's     *)
(* operators.                                                              *)

\* Two characters are the same letter, whatever their case.
SameLetter(c, d) == c = d \/ {c, d} = {"A", "a"} \/ {c, d} = {"B", "b"}

\* q occurs in m as a substring, case-insensitively.
ContainsFolded(m, q) ==
    \E i \in 0..(Len(m) - Len(q)) :
        \A j \in 1..Len(q) : SameLetter(m[i + j], q[j])

\* Record r satisfies every set field of f.
Satisfies(r, f) ==
    /\ f.level = "" \/ r.level = f.level
    /\ f.service = "" \/ r.service = f.service
    /\ f.search = <<>> \/ ContainsFolded(r.message, f.search)

\* The records of ls that satisfy f, in the order of ls.
Matching(ls, f) == SelectSeq(ls, LAMBDA r : Satisfies(r, f))

\* The first n entries of s (all of s when it is shorter).
Prefix(s, n) == [i \in 1..(IF n < Len(s) THEN n ELSE Len(s)) |-> s[i]]

\* r is an entry of s.
InSeq(r, s) == \E i \in 1..Len(s) : s[i] = r

\* The record the backend emitted in this step, if any.
PushStep(r) == r.id \notin pushed /\ r.id \in pushed'

\* This step is the continuation of fetchLogs after a successful response.
FetchSuccessStep ==
    /\ BagCardinality(inflight') < BagCardinality(inflight)
    /\ pendingEffects' = {"recompute"}

\* This step is the catch/finally path of fetchLogs.
FetchFailureStep ==
    /\ BagCardinality(inflight') < BagCardinality(inflight)
    /\ pendingEffects' = {}

----------------------------------------------------------------------------
(* Claims *)

\* C1: whenever no recompute effect is pending (the effect triggered by the
\* last filter, page, clear, push or fetch transition has run), filteredLogs
\* equals the records of logs that match the current filters, in history
\* order, truncated to the first filters.limit entries.
C1_VisibleIsFilteredPrefix ==
    "recompute" \notin pendingEffects =>
        filteredLogs = Prefix(Matching(logs, filters), filters.limit)

\* A settled state in which both the filter and the truncation took effect.
C1_Witness ==
    /\ pendingEffects = {}
    /\ hasActiveFilters(filters)
    /\ Len(filteredLogs) = filters.limit
    /\ Len(Matching(logs, filters)) > filters.limit
    /\ \E i \in 1..Len(logs) : ~Satisfies(logs[i], filters)
    /\ pushed # {}
    /\ lastResponse # NoResponse

\* C2: in every reachable state the visible list has at most filters.limit
\* entries.
C2_VisibleWithinLimit == Len(filteredLogs) <= filters.limit

\* C3: a newLog received while real time is disabled changes no state of
\* the component, and nothing remembers it: a record enters the history
\* only in the step that accepts its push or in a fetch response.
C3_DisabledPushDropped ==
    [][ /\ \A r \in Pool :
            PushStep(r) /\ ~realTimeEnabled =>
                UNCHANGED <<logs, filteredLogs, pagination, filters, loading,
                            inflight, pendingEffects, realTimeEnabled>>
        /\ \A r \in Pool :
            ~InSeq(r, logs) /\ InSeq(r, logs') =>
                \/ PushStep(r) /\ realTimeEnabled
                \/ FetchSuccessStep /\ InSeq(r, lastResponse'.logs)
      ]_vars

\* Record 1 was pushed and dropped (no response has arrived and the history
\* is empty) and real time has been enabled again since.
C3_Witness ==
    /\ realTimeEnabled
    /\ pendingEffects = {}
    /\ 1 \in pushed
    /\ lastResponse = NoResponse
    /\ logs = <<>>
    /\ filteredLogs = <<>>

\* C4: a newLog received while real time is enabled makes the history the
\* record followed by the previous history, matching or not, and makes the
\* recompute effect due.  The record is in the visible list right after
\* iff it matches the filters when no recompute effect was pending; in
\* every case the record at the head of the history is in the visible
\* list iff it matches once the recompute effect has run.
C4_AcceptedPushPrepends ==
    [][ /\ \A r \in Pool :
            PushStep(r) /\ realTimeEnabled =>
                /\ logs' = <<r>> \o logs
                /\ "recompute" \in pendingEffects'
                /\ "recompute" \notin pendingEffects =>
                       (InSeq(r, filteredLogs') <=> Satisfies(r, filters))
        /\ ("recompute" \in pendingEffects /\ pendingEffects' = {}
                /\ logs # <<>>) =>
               (InSeq(Head(logs), filteredLogs') <=>
                    Satisfies(Head(logs), filters))
      ]_vars

\* Two pushes were accepted in turn, the later one first in the history,
\* and the later one does not match the filters and is not visible.
C4_Witness ==
    /\ realTimeEnabled
    /\ Len(logs) >= 2
    /\ logs[1].id = 2 /\ logs[2].id = 1
    /\ pushed = {1, 2}
    /\ ~Satisfies(logs[1], filters)
    /\ ~InSeq(logs[1], filteredLogs)
    /\ InSeq(logs[2], filteredLogs)

\* C5: when a successful response arrives, the history becomes exactly the
\* records of that response and the pagination that of the response; the
\* response answers one of the requests in flight (a page of at most its
\* limit records that match its query); no record that is not in the
\* response stays in the history, pushed or not.
C5_FetchReplacesHistory ==
    [][ FetchSuccessStep =>
            /\ \E req \in BagToSet(inflight) :
                   /\ lastResponse'.pagination.page = req.page
                   /\ Len(lastResponse'.logs) <= req.limit
                   /\ \A i \in 1..Len(lastResponse'.logs) :
                          Satisfies(lastResponse'.logs[i], req)
            /\ logs' = lastResponse'.logs
            /\ pagination' = lastResponse'.pagination
            /\ \A r \in Pool :
                   InSeq(r, logs') => InSeq(r, lastResponse'.logs)
      ]_vars

\* The only fetch is the initial one; three pushes were accepted while it
\* was in flight (real time was never toggled), and its response of two
\* records has just replaced the history.
C5_Witness ==
    /\ fetches = 1
    /\ inflight = EmptyBag
    /\ pushed = {1, 2, 3}
    /\ pendingEffects = {"recompute"}
    /\ Len(lastResponse.logs) = 2
    /\ logs = lastResponse.logs
    /\ \E r \in Pool : ~InSeq(r, logs)

\* C6: a failed fetch leaves the history, the visible list and the
\* pagination as they were and sets loading to false.
C6_FetchFailureKeepsData ==
    [][ FetchFailureStep =>
            /\ UNCHANGED <<logs, filteredLogs, pagination>>
            /\ loading' = FALSE
      ]_vars

\* The initial fetch, the only one, failed (no response ever arrived and
\* nothing is in flight) and the pushed records are still displayed.
C6_Witness ==
    /\ fetches = 1
    /\ inflight = EmptyBag
    /\ lastResponse = NoResponse
    /\ pagination = NoPagination
    /\ ~loading
    /\ Len(logs) = 2
    /\ filteredLogs = logs

\* C7: every step that changes filters.level, filters.service or
\* filters.search leaves filters.page = 1; a step that sets a page other
\* than 1 changes no other field of filters and sets the page next to the
\* one the pagination reports (the argument of handlePageChange).
C7_FilterChangeResetsPage ==
    [][ /\ ( \/ filters'.level # filters.level
             \/ filters'.service # filters.service
             \/ filters'.search # filters.search ) => filters'.page = 1
        /\ (filters'.page # filters.page /\ filters'.page # 1) =>
               /\ filters' = [filters EXCEPT !.page = filters'.page]
               /\ filters'.page \in {pagination.page - 1, pagination.page + 1}
      ]_vars

\* The second fetch asked for page 2 and is still in flight; the level has
\* been changed since and the page is 1 again.
C7_Witness ==
    /\ fetches = 2
    /\ pendingEffects = {"recompute", "fetch"}
    /\ filters.page = 1
    /\ filters.level # ""
    /\ \E req \in BagToSet(inflight) : req.page = 2 /\ req.level = ""

----------------------------------------------------------------------------
(* The filter functions on their own: PureSpec draws a filter and builds   *)
(* a list of records, then applies applyFilters to it.                     *)

\* The texts of at most two characters over an alphabet.
Texts(alphabet) ==
    {<<>>} \cup {<<a>> : a \in alphabet} \cup {<<a, b>> : a, b \in alphabet}

PureRecords ==
    [id : {0}, level : {"INFO", "WARN", "ERROR"}, service : {"auth", "db"},
     message : Texts({"A", "b"})]

PureFilters ==
    [level : {"", "ERROR"}, service : {"", "auth"},
     search : Texts({"a", "B"}), limit : {DefaultLimit}, page : {1}]

PureInit ==
    /\ logs = <<>>
    /\ filteredLogs = <<>>
    /\ filters \in PureFilters
    /\ loading = FALSE
    /\ realTimeEnabled = TRUE
    /\ pagination = NoPagination
    /\ inflight = EmptyBag
    /\ timers = 0
    /\ hasCleanup = FALSE
    /\ pendingEffects = {"recompute"}
    /\ mounted = TRUE
    /\ pushed = {}
    /\ lastResponse = NoResponse
    /\ fetches = 0
    /\ stats = InitialStats
    /\ statsInflight = 0
    /\ lastStats = InitialStats
    /\ socketsOpen = 1
    /\ socketsOpened = 1
    /\ newLogHandlers = 1
    /\ handlersPending = FALSE
    /\ keptUnmatched = {}

PureAppend(r) ==
    /\ pendingEffects = {"recompute"}
    /\ Len(logs) < MaxPureLen
    /\ logs' = Append(logs, r)
    /\ UNCHANGED <<keptUnmatched, handlersPending, socketVars, statsVars, filteredLogs, filters, loading, realTimeEnabled,
                   pagination, inflight, timers, hasCleanup, pendingEffects,
                   mounted, pushed, lastResponse, fetches>>

PureApply ==
    /\ pendingEffects = {"recompute"}
    /\ filteredLogs' = applyFilters(logs, filters)
    /\ pendingEffects' = {}
    /\ UNCHANGED <<keptUnmatched, handlersPending, socketVars, statsVars, logs, filters, loading, realTimeEnabled, pagination,
                   inflight, timers, hasCleanup, mounted, pushed,
                   lastResponse, fetches>>

PureNext ==
    \/ \E r \in PureRecords : PureAppend(r)
    \/ PureApply

PureSpec == PureInit /\ [][PureNext]_vars

\* C8: logMatchesFilters(R) under F is true iff R satisfies every set field
\* of F (level and service by equality, search as a case-insensitive
\* substring of the message), for every combination of set fields; and
\* applyFilters keeps exactly the matching records, in their order.
C8_MatchIsConjunction ==
    /\ \A i \in 1..Len(logs) :
           logMatchesFilters(logs[i], filters) <=> Satisfies(logs[i], filters)
    /\ pendingEffects = {} => filteredLogs = Matching(logs, filters)

\* All three fields are set; the first record fails on the level only, the
\* second matches, its message containing the search in another case.
C8_Witness ==
    /\ pendingEffects = {}
    /\ filters.level = "ERROR" /\ filters.service = "auth"
    /\ filters.search = <<"a", "B">>
    /\ Len(logs) = 2
    /\ logs[1] = [logs[2] EXCEPT !.level = "INFO"]
    /\ logs[2].message = <<"A", "b">>
    /\ filteredLogs = <<logs[2]>>

----------------------------------------------------------------------------

\* This step is handlePageChange.
PageChangeStep ==
    /\ filters'.page # filters.page
    /\ filters' = [filters EXCEPT !.page = filters'.page]

\* This step runs the fetch effect.
FetchEffectStep == "fetch" \in pendingEffects /\ pendingEffects' = {}

\* This step runs the effects of a mode toggle.
ToggleEffectStep == pendingEffects = {"fetch"} /\ pendingEffects' = {}

\* This step is a tick of the interval timer.
TickStep ==
    /\ BagCardinality(inflight') > BagCardinality(inflight)
    /\ pendingEffects = {}

\* C9 as claimed: a page change made while real time is enabled schedules
\* no fetch (the fetch effect is not due after it).
C9_PageChangeNoFetch ==
    [][ PageChangeStep /\ realTimeEnabled => "fetch" \notin pendingEffects'
      ]_vars

\* C9 amended: a page change changes only filters.page in its own step and,
\* in real-time mode as in polling mode, makes the recompute effect and the
\* fetch effect due; the fetch effect issues a GET /logs for the current
\* filters, so the history is replaced when its response arrives.
C9_PageChangeRefetches ==
    [][ /\ PageChangeStep =>
               /\ pendingEffects' = {"recompute", "fetch"}
               /\ UNCHANGED <<logs, filteredLogs, pagination, inflight,
                              loading, realTimeEnabled>>
        /\ FetchEffectStep =>
               /\ inflight' = inflight (+) SetToBag({filters})
               /\ loading' = TRUE
               /\ UNCHANGED <<logs, filters, pagination>>
      ]_vars

\* Real time was never disabled (the two fetches are the initial one and
\* the one of the page change); the response for page 2 has replaced the
\* history, from which the pushed record is gone.
C9_Witness ==
    /\ realTimeEnabled
    /\ fetches = 2
    /\ filters.page = 2
    /\ lastResponse.pagination.page = 2
    /\ logs = lastResponse.logs
    /\ 1 \in pushed
    /\ \A i \in 1..Len(logs) : logs[i].id # 1

\* The statements of C10 about timers that do not depend on what else a
\* switch to real time does.
TimerDiscipline ==
    /\ [](timers <= 1)
    /\ [](mounted /\ pendingEffects = {} => (timers = 1 <=> ~realTimeEnabled))
    /\ [](~mounted => timers = 0)
    /\ [][ /\ ToggleEffectStep /\ ~realTimeEnabled =>
                  /\ timers' = 1
                  /\ inflight' = inflight (+) SetToBag({filters})
           /\ ToggleEffectStep /\ realTimeEnabled => timers' = 0
           /\ TickStep => ~realTimeEnabled
         ]_vars

\* C10 as claimed: in addition, the effects of a switch to real time do
\* nothing but stop the timer.
C10_RealTimeSwitchOnlyStopsTimer ==
    /\ TimerDiscipline
    /\ [][ ToggleEffectStep /\ realTimeEnabled =>
               UNCHANGED <<logs, filteredLogs, filters, pagination, inflight,
                           loading>>
         ]_vars

\* C10 amended: a switch to real time stops the timer and also issues an
\* immediate fetch, as a switch to polling does.
C10_ToggleFetchesAndSetsTimer ==
    /\ TimerDiscipline
    /\ [][ ToggleEffectStep /\ realTimeEnabled =>
               /\ inflight' = inflight (+) SetToBag({filters})
               /\ loading' = TRUE
               /\ UNCHANGED <<logs, filteredLogs, filters, pagination>>
         ]_vars

\* The mode was switched to polling and back to real time: each switch
\* issued a fetch for the unchanged filters and no timer is left.
C10_Witness ==
    /\ realTimeEnabled
    /\ pendingEffects = {}
    /\ timers = 0
    /\ fetches = 3
    /\ filters = DefaultFilters
    /\ inflight = (DefaultFilters :> 3)

----------------------------------------------------------------------------
(* C11 *)

\* C11: one socket connection is opened per mounted view and it is closed
\* when the view is destroyed; no step of a mounted view opens a second
\* connection or closes the open one, and across every re-registration of
\* the handlers at most one newLog listener is attached (exactly one while
\* the view is mounted).
C11_OneChannelOneHandler ==
    /\ [](socketsOpened = 1)
    /\ [](socketsOpen = IF mounted THEN 1 ELSE 0)
    /\ [](newLogHandlers = IF mounted THEN 1 ELSE 0)
    /\ [][mounted' => UNCHANGED <<socketsOpen, socketsOpened>>]_vars

\* The handlers have been registered again after a limit change and a
\* switch to polling, pushes and a fetch response have been handled, and
\* there is still one connection with one newLog listener.
C11_Witness ==
    /\ mounted /\ pendingEffects = {}
    /\ ~realTimeEnabled
    /\ filters.limit # DefaultLimit
    /\ fetches = 3
    /\ pushed # {}
    /\ lastResponse # NoResponse
    /\ socketsOpen = 1 /\ socketsOpened = 1 /\ newLogHandlers = 1

----------------------------------------------------------------------------
(* C12 *)

\* A fetchStats request has been answered without a new value being received.
FetchStatsFailureStep ==
    statsInflight' < statsInflight /\ lastStats' = lastStats

\* C12: the displayed stats are always the stats value received last, from
\* a statsUpdate push or a successful fetchStats response, in real-time and
\* in polling mode alike; a newLog push, a log fetch result and a failed
\* stats fetch leave the stats unchanged.
C12_StatsIsLastReceived ==
    /\ [](stats = lastStats)
    /\ [][ (pushed' # pushed \/ inflight' # inflight \/ FetchStatsFailureStep)
            => stats' = stats ]_vars

\* In polling mode, with no fetchStats request answered yet, the stats show
\* a pushed value.
C12_Witness ==
    /\ mounted /\ ~realTimeEnabled
    /\ statsInflight = fetches
    /\ lastStats \in StatsValues
    /\ stats = lastStats
    /\ pushed # {}

----------------------------------------------------------------------------
(* C13 *)

\* C13 as claimed: in every state in which the newLog handler can run, for
\* every record that may be pushed next and matches the filters, the fast
\* path (the record, then the first limit - 1 entries of the visible list)
\* is the list the generic recompute derives from the new history.
C13_FastPathAlwaysAgrees ==
    (mounted /\ realTimeEnabled /\ ~SyncPending) =>
        \A r \in Pool :
            (r.id \notin pushed /\ logMatchesFilters(r, filters)) =>
                FastPath(r, filteredLogs, filters)
                    = Recompute(<<r>> \o logs, filters)

\* C13: in every state in which the newLog handler can run and no recompute
\* effect is pending, the fast path for a matching record is the list the
\* generic recompute derives from the new history; and each accepted push
\* of a matching record handled in such a state leaves the visible list
\* equal to the matching records of the new history cut to limit.
C13_FastPathAgreesWhenSettled ==
    /\ []( (mounted /\ realTimeEnabled /\ pendingEffects = {}) =>
             \A r \in Pool :
                 (r.id \notin pushed /\ logMatchesFilters(r, filters)) =>
                     FastPath(r, filteredLogs, filters)
                         = Recompute(<<r>> \o logs, filters) )
    /\ [][ \A r \in Pool :
             (PushStep(r) /\ realTimeEnabled /\ pendingEffects = {}
                  /\ Satisfies(r, filters)) =>
                 filteredLogs' = Prefix(Matching(logs', filters), filters.limit)
         ]_vars

\* The record pushed last matches filters that are not the default ones, it
\* heads the visible list, and the fast path cut the list to limit: more
\* records of the history match than are shown.
C13_Witness ==
    /\ mounted /\ realTimeEnabled
    /\ pendingEffects = {"recompute"}
    /\ hasActiveFilters(filters)
    /\ logs # <<>> /\ filteredLogs # <<>>
    /\ Head(logs).id = Cardinality(pushed)
    /\ Satisfies(Head(logs), filters)
    /\ Head(filteredLogs) = Head(logs)
    /\ Len(filteredLogs) = filters.limit
    /\ Len(Matching(logs, filters)) > filters.limit

----------------------------------------------------------------------------
(* C14 *)

\* C14: requests in flight are never cancelled.  A change of filters and
\* the fetch it triggers leave every earlier request in flight, a request
\* leaves only by being answered, one per step, and a successful response
\* overwrites the history and the pagination whether or not it answers the
\* current filters.
C14_NoCancellation ==
    [][ /\ (filters' # filters) => inflight' = inflight
        /\ fetches' > fetches =>
               \A req \in BagToSet(inflight) :
                   CopiesIn(req, inflight') >= CopiesIn(req, inflight)
        /\ BagCardinality(inflight') >= BagCardinality(inflight) - 1
        /\ FetchSuccessStep =>
               /\ logs' = lastResponse'.logs
               /\ pagination' = lastResponse'.pagination
               /\ filters' = filters
      ]_vars

\* Two fetches were issued, for the default filters and, after the level
\* was set, for the current ones; none is in flight, and the history and
\* the pagination are those of a response that holds an INFO record, which
\* only the first request can have returned.
C14_Witness ==
    /\ mounted
    /\ inflight = EmptyBag
    /\ fetches = 2
    /\ filters.level = "ERROR"
    /\ lastResponse # NoResponse
    /\ logs = lastResponse.logs
    /\ pagination = lastResponse.pagination
    /\ \E i \in 1..Len(logs) : logs[i].level = "INFO"

----------------------------------------------------------------------------
(* C15 *)

\* C15 as claimed: whenever real time is disabled, the history is exactly
\* the records of the last successful fetch response.
C15_PollingHistoryIsLastResponse ==
    ~realTimeEnabled => logs = lastResponse.logs

\* C15: the switch to polling leaves the history as it is, pushed records
\* included, and so does a failed fetch.  While real time stays disabled
\* no push changes the history: the only step that changes it is a
\* successful fetch response, which makes it exactly the records of that
\* response; from then on, while real time stays disabled, the history is
\* the records of the last successful response.
C15_PollingAddsNoPush ==
    [][ /\ (realTimeEnabled /\ ~realTimeEnabled') => logs' = logs
        /\ (~realTimeEnabled /\ FetchFailureStep) => logs' = logs
        /\ (~realTimeEnabled /\ ~realTimeEnabled') =>
               /\ \A r \in Pool : PushStep(r) => logs' = logs
               /\ logs' # logs =>
                      (FetchSuccessStep /\ logs' = lastResponse'.logs)
               /\ logs = lastResponse.logs => logs' = lastResponse'.logs
      ]_vars

\* Real time is disabled, the fetch of the mount and the fetch of the
\* toggle have both failed, and the history still holds a record that was
\* pushed before the toggle.
C15_Witness ==
    /\ mounted /\ ~realTimeEnabled
    /\ pendingEffects = {}
    /\ timers = 1
    /\ fetches = 2
    /\ inflight = EmptyBag
    /\ lastResponse = NoResponse
    /\ logs # <<>>
    /\ Head(logs).id \in pushed

----------------------------------------------------------------------------
(* C16 *)

\* r is among the first limit matching records of ls under f.
Qualifies(r, ls, f) == InSeq(r, Prefix(Matching(ls, f), f.limit))

\* C16 as claimed: a record that was pushed while it did not match and
\* that now is among the first limit matching records of the history is
\* still among them after the response to the fetch for the current
\* filters has arrived.
C16_KeptRecordVisibleAfterFetch ==
    [][ \A r \in Pool :
            ( /\ r.id \in keptUnmatched
              /\ Qualifies(r, logs, filters)
              /\ FetchSuccessStep
              /\ BagToSet(inflight) = {filters} ) =>
                Qualifies(r, logs', filters')
      ]_vars

\* C16: a record pushed in real time while it does not match the filters
\* is put at the head of the history; a change of filters keeps it there;
\* when the recompute effect runs and the record is among the first limit
\* matching records of the history, it is in the visible list, and it is
\* there in every settled state as long as no fetch response has arrived
\* since the push.  After a fetch response the record is in the history
\* iff the response holds it.
C16_KeptRecordVisibleUntilFetch ==
    /\ []( pendingEffects = {} =>
             \A r \in Pool :
                 (r.id \in keptUnmatched /\ Qualifies(r, logs, filters)) =>
                     InSeq(r, filteredLogs) )
    /\ [][ \A r \in Pool :
             /\ (PushStep(r) /\ realTimeEnabled /\ ~Satisfies(r, filters)) =>
                    (logs' = <<r>> \o logs /\ r.id \in keptUnmatched')
             /\ (r.id \in keptUnmatched /\ filters' # filters) =>
                    (logs' = logs /\ r.id \in keptUnmatched')
             /\ (r.id \in keptUnmatched /\ Qualifies(r, logs, filters)
                    /\ "recompute" \in pendingEffects /\ pendingEffects' = {}) =>
                    InSeq(r, filteredLogs')
             /\ (r.id \in keptUnmatched /\ FetchSuccessStep) =>
                    (InSeq(r, logs') <=> InSeq(r, lastResponse'.logs))
         ]_vars

\* A record that was pushed while it did not match now matches the
\* filters and is visible, the effects of the filter change have run and
\* the fetch that the change triggered has not returned.
C16_Witness ==
    /\ mounted /\ realTimeEnabled
    /\ pendingEffects = {}
    /\ inflight # EmptyBag
    /\ \E r \in Pool :
         /\ r.id \in keptUnmatched
         /\ Satisfies(r, filters)
         /\ InSeq(r, filteredLogs)

----------------------------------------------------------------------------
(* C17 *)

\* C17 as claimed: the pagination is that of the last successful log fetch
\* response (empty before the first), no step but a successful response
\* changes it, and no log fetch is issued while real time is enabled.
C17_NoFetchInRealTime ==
    /\ [](pagination = lastResponse.pagination)
    /\ [][~FetchSuccessStep => pagination' = pagination]_vars
    /\ [][realTimeEnabled => fetches' = fetches]_vars

\* C17: the pagination is that of the last successful log fetch response
\* (empty before the first) and no step but a successful response changes
\* it; a response sets it in real-time mode as in polling mode.  While
\* real time is enabled a log fetch is issued by the fetch effect only
\* (after a filter, page or mode change), never by the timer.
C17_PaginationIsLastResponse ==
    /\ [](pagination = lastResponse.pagination)
    /\ [][~FetchSuccessStep => pagination' = pagination]_vars
    /\ [][FetchSuccessStep => pagination' = lastResponse'.pagination]_vars
    /\ [][(realTimeEnabled /\ fetches' > fetches) => FetchEffectStep]_vars

\* Real time was never disabled: the second fetch, issued by a page change,
\* has refreshed the pagination, and a record pushed since then is in the
\* history without the pagination having changed.
C17_Witness ==
    /\ mounted /\ realTimeEnabled
    /\ pendingEffects = {}
    /\ fetches = 2
    /\ inflight = EmptyBag
    /\ pagination = [page |-> 2, pages |-> 2]
    /\ pagination = lastResponse.pagination
    /\ Len(logs) = Len(lastResponse.logs) + 1
    /\ Head(logs).id \in pushed

----------------------------------------------------------------------------
(* C18 *)

\* The page is server-correct for f: every record satisfies f and there are
\* at most limit of them.
ServerCorrect(records, f) ==
    /\ Len(records) <= f.limit
    /\ \A i \in 1..Len(records) : Satisfies(records[i], f)

\* C18: when the response that arrives is server-correct for the current
\* filters, the visible list that fetchLogs sets is the list the recompute
\* derives from the new history; and when the recompute effect runs on a
\* history that is such a response, the visible list is exactly the
\* returned records, and recomputing that list again gives the same list.
C18_CorrectResponseIsFixedPoint ==
    [][ /\ ( /\ FetchSuccessStep
             /\ "recompute" \notin pendingEffects
             /\ ServerCorrect(lastResponse'.logs, filters) ) =>
               /\ filteredLogs' = lastResponse'.logs
               /\ filteredLogs' = Prefix(Matching(logs', filters), filters.limit)
        /\ ( /\ "recompute" \in pendingEffects /\ pendingEffects' = {}
             /\ lastResponse # NoResponse
             /\ logs = lastResponse.logs
             /\ ServerCorrect(logs, filters) ) =>
               /\ filteredLogs' = lastResponse.logs
               /\ Prefix(Matching(filteredLogs', filters), filters.limit)
                      = filteredLogs'
      ]_vars

\* Under filters that are not the default ones, a response of exactly limit
\* matching records is the history and, the recompute effect having run,
\* the visible list.
C18_Witness ==
    /\ mounted
    /\ pendingEffects = {}
    /\ hasActiveFilters(filters)
    /\ lastResponse # NoResponse
    /\ logs = lastResponse.logs
    /\ Len(logs) = filters.limit
    /\ ServerCorrect(logs, filters)
    /\ filteredLogs = logs

----------------------------------------------------------------------------
(* C19 *)

\* C19: loading is true exactly when at least one log fetch is in flight.
C19_LoadingIffInFlight ==
    loading <=> (inflight # EmptyBag)

----------------------------------------------------------------------------
(* C20 *)

\* No two entries of s have the same id.
DistinctIds(s) ==
    \A i, j \in 1..Len(s) : i # j => s[i].id # s[j].id

\* C20: no two entries of the history, and no two entries of the visible
\* list, have the same id.
C20_NoDuplicateIds ==
    DistinctIds(logs) /\ DistinctIds(filteredLogs)

====
